---- MODULE Spec2Model ----
(***************************************************************************)
(* A model of 02-experiment-tracking/scenerios/aws_tooling.py:             *)
(*   - InstanceWrapper, the thin client over the provider's RDS calls;     *)
(*   - RdsInstanceScenario, the provisioning workflow (run_scenario and    *)
(*     the cleanup call of the __main__ block);                            *)
(*   - the provider, as the environment: it keeps the parameter group,     *)
(*     the DB instance and the snapshot, answers every call, and may       *)
(*     answer any call with an error.                                      *)
(* Spec is the program as its entry points run it (run_scenario, the       *)
(* __main__ block, a direct call of a client method); FairSpec adds that   *)
(* the single thread keeps running.  The entry points of the list         *)
(* operations build each choice list twice, two runs side by side on the   *)
(* same provider answer.                                                   *)
(***************************************************************************)
EXTENDS Integers, Sequences, FiniteSets, TLC

VARIABLES
    pc,               \* the workflow's position
    entry,            \* the entry point this run of the program executes
    parameter_group,  \* run_scenario's parameter_group: "None" or "found"
    db_inst,          \* the db_inst variable: "None", "Str" (an identifier string) or a record's status
    snapshot,         \* create_snapshot's snapshot: "None" or a record's status
    raised,           \* the exception that ended the program, "none" while it runs
    family,           \* the DBParameterGroupFamily passed to create_db_parameter_group
    pgExists,         \* provider: the parameter group exists
    instState,        \* provider: the DB instance's state
    snapState,        \* provider: the snapshot's state
    lastCall,         \* the most recent client call: operation, argument kind, provider answer, outcome
    obs,              \* the statuses the current poll loop's condition has read
    polls,            \* the describe calls the current poll loop has made
    pollAfterTarget,  \* a poll loop has described after reading its target status
    pollDone,         \* the current poll loop has ended and its method gone on
    pgCheck,          \* what create_parameter_group's first describe returned
    pgCreates,        \* create_db_parameter_group calls issued
    instCheck,        \* what create_instance's first describe returned
    instCreates,      \* create_db_instance calls issued
    instDeleted,      \* cleanup's delete_db_instance has returned
    absentSeen,       \* cleanup has described the instance as absent after deleting it
    pgDeleteAt,       \* the instance state at the delete_db_parameter_group call, "none" before
    lop,              \* list entry points: the operation that ran
    pages,            \* list entry points: the pages the provider holds for the request
    result,           \* list entry points: the list the client returned
    listA,            \* list entry points: the choice list presented in one run
    listB,            \* list entry points: the choice list presented in another run on the same response
    createA,          \* list entry points: the value the first run passes to the create call
    createB,          \* list entry points: the value the second run passes to the create call
    auto_inc_parameters, \* update_parameters: the parameters get_parameters returned
    idx,              \* update_parameters: the for loop's position
    update_params,    \* update_parameters: the parameters collected for the modify call
    sent              \* the Parameters of the modify_db_parameter_group call, "none" before

progVars == <<pc, entry, parameter_group, db_inst, snapshot, raised, family>>
provVars == <<pgExists, instState, snapState>>
pollVars == <<obs, polls, pollAfterTarget, pollDone>>
checkVars == <<pgCheck, pgCreates, instCheck, instCreates>>
cleanVars == <<instDeleted, absentSeen, pgDeleteAt>>
paramVars == <<auto_inc_parameters, idx, update_params, sent>>
listVars == <<lop, pages, result, listA, listB, createA, createB>>
vars == <<progVars, provVars, lastCall, pollVars, checkVars, cleanVars, paramVars, listVars>>

(***************************************************************************)
(* Bounds.                                                                 *)
(***************************************************************************)
\* Poll-loop observations recorded; the loops themselves are unbounded.
MaxObs == 3
\* Pages the provider holds for one list request, and items per page.
MaxPages == 2
MaxPageLen == 2
\* Parameters in one describe_db_parameters answer.
MaxParams == 2

(***************************************************************************)
(* Provider (the environment).                                             *)
(***************************************************************************)
\* An error the provider may give to any call (throttling, permissions, ...).
OtherError == "AccessDenied"
InstStatuses == {"creating", "available", "failed", "deleting"}
SnapStatuses == {"creating", "available", "failed"}

\* The instance's state at the next describe: provisioning advances, and the
\* instance can be gone (deleted, or removed by someone else).
InstNext(s) ==
    CASE s = "absent" -> {"absent"}
      [] s = "creating" -> {"creating", "available", "failed", "absent"}
      [] s = "available" -> {"available", "absent"}
      [] s = "failed" -> {"failed", "absent"}
      [] s = "deleting" -> {"deleting", "absent"}

SnapNext(s) ==
    CASE s = "absent" -> {"absent"}
      [] s = "creating" -> {"creating", "available", "failed", "absent"}
      [] s = "available" -> {"available", "absent"}
      [] s = "failed" -> {"failed", "absent"}

\* describe_db_instances: the answer for an instance in state s.
DescribeInstanceAnswer(s) == IF s = "absent" THEN "DBInstanceNotFound" ELSE s
DescribeSnapshotAnswer(s) == IF s = "absent" THEN "DBSnapshotNotFound" ELSE s
DescribeGroupAnswer(e) == IF e THEN "found" ELSE "DBParameterGroupNotFound"

ErrorCodes == {OtherError, "DBInstanceNotFound", "DBSnapshotNotFound",
               "DBParameterGroupNotFound", "DBInstanceAlreadyExists",
               "DBParameterGroupAlreadyExists", "InvalidDBInstanceState",
               "InvalidDBParameterGroupState"}
NotFoundCodes == {"DBInstanceNotFound", "DBSnapshotNotFound", "DBParameterGroupNotFound"}

(***************************************************************************)
(* InstanceWrapper: each operator takes the provider's answer (a value or  *)
(* an error code) and gives what the method returns or raises.             *)
(***************************************************************************)
Return(v) == [ret |-> v, exc |-> "none"]
Raise(e) == [ret |-> "None", exc |-> e]

get_parameter_group(answer) ==
    IF answer \in ErrorCodes
    THEN IF answer = "DBParameterGroupNotFound" THEN Return("None") ELSE Raise("ClientError")
    ELSE Return(answer)

get_db_instance(answer) ==
    IF answer \in ErrorCodes
    THEN IF answer = "DBInstanceNotFound" THEN Return("None") ELSE Raise("ClientError")
    ELSE Return(answer)

get_snapshot(answer) ==
    IF answer \in ErrorCodes THEN Raise("ClientError") ELSE Return(answer)

\* A wrapper that logs the error and goes on with None.
single_shot_swallowing(answer) ==
    IF answer \in ErrorCodes THEN Return("None") ELSE Return(answer)

\* create_parameter_group, update_parameters, create_snapshot, create_db_instance,
\* delete_db_instance, delete_parameter_group: log and re-raise, else return.
single_shot(answer) ==
    IF answer \in ErrorCodes THEN Raise("ClientError") ELSE Return(answer)

\* delete_db_instance: as single_shot; a client that rejects the argument's
\* type raises before any request, and that is no ClientError.
delete_db_instance(answer) ==
    IF answer = "ParamValidationError" THEN Raise("ParamValidationError")
    ELSE single_shot(answer)

Call(op, arg, answer, out) == [op |-> op, arg |-> arg, answer |-> answer, out |-> out]
NoCall == Call("none", "none", "none", Return("None"))
(***************************************************************************)
(* Strings are sequences of one-character strings, so that split, int,     *)
(* str, startswith and "in" are computed as Python computes them.          *)
(***************************************************************************)
Digits == <<"0", "1", "2", "3", "4", "5", "6", "7", "8", "9">>
IsDigit(c) == \E d \in 1..10 : Digits[d] = c
DigitValue(c) == (CHOOSE d \in 1..10 : Digits[d] = c) - 1

Range(s) == {s[i] : i \in 1..Len(s)}

RECURSIVE Flatten(_)
Flatten(ss) == IF ss = <<>> THEN <<>> ELSE Head(ss) \o Flatten(Tail(ss))

NoDup(s) == \A i, j \in 1..Len(s) : i # j => s[i] # s[j]

RECURSIVE Filter(_, _)
\* [x for x in s if x \in keep]
Filter(s, keep) ==
    IF s = <<>> THEN <<>>
    ELSE (IF Head(s) \in keep THEN <<Head(s)>> ELSE <<>>) \o Filter(Tail(s), keep)

\* str.startswith
StartsWith(s, prefix) ==
    Len(s) >= Len(prefix) /\ SubSeq(s, 1, Len(prefix)) = prefix

\* the "in" operator on strings: a substring test
Contains(s, sub) ==
    \E i \in 1..(Len(s) - Len(sub) + 1) : SubSeq(s, i, i + Len(sub) - 1) = sub

RECURSIVE Split(_, _)
\* str.split(sep) for a one-character separator: every occurrence splits, and
\* leading, trailing and adjacent separators give empty strings.
Split(s, sep) ==
    IF \A i \in 1..Len(s) : s[i] # sep THEN <<s>>
    ELSE LET i == CHOOSE k \in 1..Len(s) : s[k] = sep /\ \A j \in 1..(k - 1) : s[j] # sep
         IN <<SubSeq(s, 1, i - 1)>> \o Split(SubSeq(s, i + 1, Len(s)), sep)

RECURSIVE DigitsValue(_)
DigitsValue(s) ==
    IF s = <<>> THEN 0 ELSE 10 * DigitsValue(SubSeq(s, 1, Len(s) - 1)) + DigitValue(s[Len(s)])

AllDigits(s) == s # <<>> /\ \A i \in 1..Len(s) : IsDigit(s[i])

\* int(s) succeeds: an optional sign, then digits (the strings of the model hold
\* no blanks or underscores); otherwise int raises ValueError.
int_ok(s) ==
    IF s # <<>> /\ s[1] \in {"-", "+"} THEN AllDigits(Tail(s)) ELSE AllDigits(s)

int(s) ==
    IF s[1] = "-" THEN 0 - DigitsValue(Tail(s))
    ELSE IF s[1] = "+" THEN DigitsValue(Tail(s))
    ELSE DigitsValue(s)

RECURSIVE NatStr(_)
NatStr(n) == IF n < 10 THEN <<Digits[n + 1]>> ELSE NatStr(n \div 10) \o <<Digits[(n % 10) + 1]>>

\* str(n) of an int
Str(n) == IF n < 0 THEN <<"-">> \o NatStr(0 - n) ELSE NatStr(n)

\* list(a set): the elements once each, in the set's iteration order, which for
\* strings depends on the process's hash seed: any order.
ListsOfSet(S) ==
    {l \in [1..Cardinality(S) -> S] : {l[i] : i \in 1..Cardinality(S)} = S}

RECURSIVE NoDupSeqs(_, _)
\* The sequences of at most n elements of S that hold no element twice.
NoDupSeqs(S, n) ==
    IF n = 0 THEN {<<>>}
    ELSE LET shorter == NoDupSeqs(S, n - 1)
         IN shorter \cup UNION {{Append(s, x) : x \in S \ Range(s)} :
                                    s \in {t \in shorter : Len(t) = n - 1}}
(***************************************************************************)
(* The values the provider's answers are made of.                          *)
(***************************************************************************)
auto_increment == <<"a", "u", "t", "o", "_", "i", "n", "c", "r", "e", "m", "e", "n", "t">>
auto_increment_increment == auto_increment \o <<"_", "i", "n", "c", "r", "e", "m", "e", "n", "t">>
auto_increment_offset == auto_increment \o <<"_", "o", "f", "f", "s", "e", "t">>
autocommit == <<"a", "u", "t", "o", "c", "o", "m", "m", "i", "t">>
micro == <<"m", "i", "c", "r", "o">>
db_t3_micro == <<"d", "b", ".", "t", "3", ".">> \o micro
db_t2_micro == <<"d", "b", ".", "t", "2", ".">> \o micro
db_m5_large == <<"d", "b", ".", "m", "5", ".", "l", "a", "r", "g", "e">>

EngineVersions ==
    {[Engine |-> "postgres", EngineVersion |-> "13.7", DBParameterGroupFamily |-> "postgres13"],
     [Engine |-> "postgres", EngineVersion |-> "14.1", DBParameterGroupFamily |-> "postgres14"],
     [Engine |-> "postgres", EngineVersion |-> "14.2", DBParameterGroupFamily |-> "postgres14"]}
\* The provider lists one option per class and storage type.
InstanceOptions ==
    {[DBInstanceClass |-> db_t3_micro, StorageType |-> "gp2"],
     [DBInstanceClass |-> db_t3_micro, StorageType |-> "standard"],
     [DBInstanceClass |-> db_t2_micro, StorageType |-> "gp2"],
     [DBInstanceClass |-> db_m5_large, StorageType |-> "gp2"]}

\* AllowedValues strings: ranges, a single value, a comma list, a negative lower
\* bound, a reversed range, three parts, the empty string.
AllowedValuesSet ==
    {<<"1", "-", "3">>, <<"0", "-", "1">>, <<"3">>, <<"0", ",", "1">>,
     <<"-", "1", "-", "3">>, <<"3", "-", "1">>, <<"1", "-", "2", "-", "3">>, <<>>}
Parameters ==
    [ParameterName : {auto_increment_increment, auto_increment_offset},
     IsModifiable : BOOLEAN, DataType : {"integer", "string"},
     AllowedValues : AllowedValuesSet]
RECURSIVE ParameterListsUpTo(_)
\* The lists of at most n parameters; one answer names a parameter once.
ParameterListsUpTo(n) ==
    IF n = 0 THEN {<<>>}
    ELSE LET shorter == ParameterListsUpTo(n - 1)
         IN shorter \cup UNION {{Append(l, p) : p \in {q \in Parameters :
                                        \A i \in 1..Len(l) : l[i].ParameterName # q.ParameterName}} :
                                    l \in {t \in shorter : Len(t) = n - 1}}
ParameterLists == ParameterListsUpTo(MaxParams)

\* What the user may type at a prompt for a number.
UserInputs ==
    {<<"0">>, <<"1">>, <<"2">>, <<"3">>, <<"4">>, <<"-", "1">>, <<"x">>, <<"1", ".", "5">>}

\* The answers the provider gives run_scenario: few, so that the rest of the
\* workflow is explored behind each.
ScenarioParameterLists ==
    {<<>>,
     <<[ParameterName |-> auto_increment_increment, IsModifiable |-> TRUE,
        DataType |-> "integer", AllowedValues |-> <<"1", "-", "3">>]>>,
     <<[ParameterName |-> auto_increment_offset, IsModifiable |-> TRUE,
        DataType |-> "integer", AllowedValues |-> <<"0", ",", "1">>]>>}
ScenarioVersionPages ==
    {<<<<>>>>} \cup ({<<<<v, w>>>> : v, w \in EngineVersions} \ {<<<<v, v>>>> : v \in EngineVersions})
ScenarioOptionPages ==
    {<<<<[DBInstanceClass |-> db_m5_large, StorageType |-> "gp2"]>>>>,
     <<<<[DBInstanceClass |-> db_t3_micro, StorageType |-> "gp2"]>>,
       <<[DBInstanceClass |-> db_t2_micro, StorageType |-> "gp2"]>>>>}

(***************************************************************************)
(* InstanceWrapper's list operations, on the pages the provider holds.     *)
(***************************************************************************)
\* parameters += [p for p in page["Parameters"] if name.startswith(name_prefix)]
get_parameters(ps, name_prefix) ==
    Flatten([i \in 1..Len(ps) |->
        Filter(ps[i], {q \in Range(ps[i]) : StartsWith(q.ParameterName, name_prefix)})])

\* inst_opts += page["OrderableDBInstanceOptions"], for every page of the paginator
get_orderable_instances(ps) == Flatten(ps)

\* One describe_db_engine_versions call, and its answer's DBEngineVersions: the
\* first page.
get_engine_versions(ps) == ps[1]

(***************************************************************************)
(* RdsInstanceScenario's choice lists.                                     *)
(***************************************************************************)
\* list({ver["DBParameterGroupFamily"] for ver in engine_versions}): the lists it may be
families(engine_versions) ==
    ListsOfSet({engine_versions[i].DBParameterGroupFamily : i \in 1..Len(engine_versions)})

\* [ver["EngineVersion"] for ver in engine_versions]
engine_choices(engine_versions) ==
    [i \in 1..Len(engine_versions) |-> engine_versions[i].EngineVersion]

\* list({opt["DBInstanceClass"] for opt in inst_opts if "micro" in opt["DBInstanceClass"]})
inst_choices(inst_opts) ==
    ListsOfSet({inst_opts[i].DBInstanceClass : i \in
        {k \in 1..Len(inst_opts) : Contains(inst_opts[k].DBInstanceClass, micro)}})

\* q.choose(prompt, options): an index into the list (here from 1); with no
\* option there is no answer and the prompt never returns.
choose(options) == 1..Len(options)

(***************************************************************************)
(* update_parameters' loop body.                                           *)
(***************************************************************************)
\* if auto_inc["IsModifiable"] and auto_inc["DataType"] == "integer"
is_offered(p) == p.IsModifiable /\ p.DataType = "integer"

\* auto_inc["AllowedValues"].split("-")
param_range(p) == Split(p.AllowedValues, "-")

\* The upper bound taken one too high.
in_range_bounds_upper_off_by_one(pr) == <<int(pr[1]), int(pr[2]) + 1>>

\* q.in_range(int(param_range[0]), int(param_range[1]))
in_range_bounds(pr) == <<int(pr[1]), int(pr[2])>>

\* q.ask(prompt, q.is_int, q.in_range(lower, upper)): what it can return. An
\* input that is no integer or lies outside the range is asked again.
ask_int_in_range(lower, upper) ==
    {int(t) : t \in {u \in UserInputs : int_ok(u) /\ lower <= int(u) /\ int(u) <= upper}}

\* auto_inc["ParameterValue"] = str(v)
with_value(p, v) == [ParameterValue |-> Str(v)] @@ p
(***************************************************************************)
(* The workflow.                                                           *)
(***************************************************************************)
\* An exception nothing catches ends the program.
Fails(e) == pc' = "failed" /\ raised' = e
Goes(next) == pc' = next /\ raised' = raised

\* The loop condition written as "still creating": any other status ends the wait.
poll_continues_while_creating(status) == status = "creating"

\* while db_inst.get("DBInstanceStatus") != "available"  (and snapshot.get("Status"))
poll_continues(status) == status # "available"

\* One reading of a poll loop's condition.
Observe(status) == obs' = IF Len(obs) < MaxObs THEN Append(obs, status) ELSE obs
\* One describe of a poll loop.
CountPoll ==
    /\ polls' = IF polls < MaxObs THEN polls + 1 ELSE polls
    /\ pollAfterTarget' = (pollAfterTarget \/ \E i \in 1..Len(obs) : obs[i] = "available")
StartPoll == obs' = <<>> /\ polls' = 0 /\ pollAfterTarget' = FALSE /\ pollDone' = FALSE

\* The loop condition written as "not yet deleting": a deleting instance ends the wait.
cleanup_continues_until_deleting(inst) == inst \notin {"None", "deleting"}

\* while db_inst is not None
cleanup_continues(inst) == inst # "None"

\* Every value can be subscripted.
subscriptable_any(value) == TRUE

\* parameter_group['DBParameterGroupName']: None cannot be subscripted (TypeError)
subscriptable(value) == value # "None"

\* run_scenario(db_engine, parameter_group_name, instance_name, db_name)
run_scenario ==
    /\ pc = "start"
    /\ pc' = "create_parameter_group"
    /\ entry = "run_scenario"
    /\ UNCHANGED <<entry, parameter_group, db_inst, snapshot, raised, family, provVars, lastCall,
                   pollVars, checkVars, cleanVars, paramVars, listVars>>

\* The __main__ block: scenario.cleanup("mlflow-backend-db", "mlops-params-group")
main ==
    /\ pc = "start"
    /\ pc' = "cleanup"
    /\ entry = "main"
    /\ db_inst' = "Str"
    /\ UNCHANGED <<entry, parameter_group, snapshot, raised, family, provVars, lastCall,
                   pollVars, checkVars, cleanVars, paramVars, listVars>>

\* create_parameter_group: the first get_parameter_group
create_parameter_group_check ==
    /\ pc = "create_parameter_group"
    /\ \E answer \in {DescribeGroupAnswer(pgExists), OtherError} :
         LET out == get_parameter_group(answer) IN
         /\ lastCall' = Call("get_parameter_group", "name", answer, out)
         /\ IF out.exc # "none"
            THEN Fails(out.exc) /\ UNCHANGED <<parameter_group, pgCheck>>
            ELSE /\ parameter_group' = out.ret
                 /\ pgCheck' = out.ret
                 /\ Goes(IF out.ret = "None" THEN "pg_versions" ELSE "update_parameters")
    /\ UNCHANGED <<entry, db_inst, snapshot, family, provVars, pollVars, pgCreates,
                   instCheck, instCreates, cleanVars, paramVars, listVars>>

\* create_parameter_group: get_engine_versions, the families, q.choose
create_parameter_group_choose ==
    /\ pc = "pg_versions"
    /\ \/ /\ lastCall' = Call("get_engine_versions", "engine", OtherError, Raise("ClientError"))
          /\ Fails("ClientError")
          /\ UNCHANGED family
       \/ \E ps \in ScenarioVersionPages :
            \E fams \in families(get_engine_versions(ps)) :
              \E family_index \in choose(fams) :
                /\ lastCall' = Call("get_engine_versions", "engine", "versions", Return("versions"))
                /\ family' = fams[family_index]
                /\ Goes("pg_create")
    /\ UNCHANGED <<entry, parameter_group, db_inst, snapshot, provVars, pollVars, checkVars,
                   cleanVars, paramVars, listVars>>

\* create_parameter_group: the wrapper's create_parameter_group
create_parameter_group_create ==
    /\ pc = "pg_create"
    /\ pgCreates' = pgCreates + 1
    /\ \E answer \in {IF pgExists THEN "DBParameterGroupAlreadyExists" ELSE "created", OtherError} :
         LET out == single_shot(answer) IN
         /\ lastCall' = Call("create_parameter_group", "name", answer, out)
         /\ pgExists' = (pgExists \/ answer = "created")
         /\ IF out.exc # "none" THEN Fails(out.exc) ELSE Goes("pg_describe")
    /\ UNCHANGED <<entry, parameter_group, db_inst, snapshot, family, instState, snapState,
                   pollVars, pgCheck, instCheck, instCreates, cleanVars, paramVars, listVars>>

\* create_parameter_group: the second get_parameter_group, then
\* parameter_group['DBParameterGroupName'] and the return.  The group may be
\* gone again by then (someone deleted it).
create_parameter_group_describe ==
    /\ pc = "pg_describe"
    /\ \E e \in {pgExists, FALSE} : \E answer \in {DescribeGroupAnswer(e), OtherError} :
         LET out == get_parameter_group(answer) IN
         /\ lastCall' = Call("get_parameter_group", "name", answer, out)
         /\ pgExists' = IF answer = OtherError THEN pgExists ELSE e
         /\ IF out.exc # "none"
            THEN Fails(out.exc) /\ UNCHANGED parameter_group
            ELSE /\ parameter_group' = out.ret
                 /\ IF subscriptable(out.ret) THEN Goes("update_parameters")
                    ELSE Fails("TypeError")
    /\ UNCHANGED <<entry, db_inst, snapshot, family, instState, snapState, pollVars,
                   checkVars, cleanVars, paramVars, listVars>>

\* The describe_db_parameters pages the provider answers update_parameters with.
ParameterPages ==
    IF entry = "update_parameters" THEN {<<l>> : l \in ParameterLists}
    ELSE {<<l>> : l \in ScenarioParameterLists}

\* update_parameters: get_parameters(parameter_group_name, name_prefix="auto_increment")
update_parameters_get ==
    /\ pc = "update_parameters"
    /\ \/ /\ lastCall' = Call("get_parameters", "name", OtherError, Raise("ClientError"))
          /\ Fails("ClientError")
          /\ UNCHANGED auto_inc_parameters
       \/ \E ps \in ParameterPages :
            /\ lastCall' = Call("get_parameters", "name", "parameters", Return("parameters"))
            /\ auto_inc_parameters' = get_parameters(ps, auto_increment)
            /\ Goes("up_loop")
    /\ idx' = 1
    /\ update_params' = <<>>
    /\ UNCHANGED <<entry, parameter_group, db_inst, snapshot, family, provVars, pollVars,
                   checkVars, cleanVars, sent, listVars>>

\* update_parameters: one turn of "for auto_inc in auto_inc_parameters"
update_parameters_loop ==
    /\ pc = "up_loop"
    /\ idx <= Len(auto_inc_parameters)
    /\ LET auto_inc == auto_inc_parameters[idx]
           pr == param_range(auto_inc)
       IN IF ~is_offered(auto_inc)
          THEN Goes("up_loop") /\ idx' = idx + 1 /\ UNCHANGED update_params
          ELSE IF Len(pr) < 2
          THEN Fails("IndexError") /\ UNCHANGED <<idx, update_params>>
          ELSE IF ~(int_ok(pr[1]) /\ int_ok(pr[2]))
          THEN Fails("ValueError") /\ UNCHANGED <<idx, update_params>>
          ELSE \E v \in ask_int_in_range(in_range_bounds(pr)[1], in_range_bounds(pr)[2]) :
                 /\ update_params' = Append(update_params, with_value(auto_inc, v))
                 /\ idx' = idx + 1
                 /\ Goes("up_loop")
    /\ UNCHANGED <<entry, parameter_group, db_inst, snapshot, family, provVars, lastCall,
                   pollVars, checkVars, cleanVars, auto_inc_parameters, sent, listVars>>

\* update_parameters: the wrapper's update_parameters (modify_db_parameter_group)
update_parameters_modify ==
    /\ pc = "up_loop"
    /\ idx > Len(auto_inc_parameters)
    /\ sent' = update_params
    /\ \E answer \in {"modified", OtherError} :
         LET out == single_shot(answer) IN
         /\ lastCall' = Call("update_parameters", "name", answer, out)
         /\ IF out.exc # "none" THEN Fails(out.exc) ELSE Goes("up_user")
    /\ UNCHANGED <<entry, parameter_group, db_inst, snapshot, family, provVars, pollVars,
                   checkVars, cleanVars, auto_inc_parameters, idx, update_params, listVars>>

\* update_parameters: get_parameters(parameter_group_name, source="user"), and the return
update_parameters_user ==
    /\ pc = "up_user"
    /\ \E answer \in {"parameters", OtherError} :
         LET out == single_shot(answer) IN
         /\ lastCall' = Call("get_parameters", "name", answer, out)
         /\ IF out.exc # "none" THEN Fails(out.exc)
            ELSE Goes(IF entry = "update_parameters" THEN "done" ELSE "create_instance")
    /\ auto_inc_parameters' = <<>>
    /\ idx' = 1
    /\ update_params' = <<>>
    /\ sent' = <<>>
    /\ UNCHANGED <<entry, parameter_group, db_inst, snapshot, family, provVars, pollVars,
                   checkVars, cleanVars, listVars>>
\* create_instance: the first get_db_instance
create_instance_check ==
    /\ pc = "create_instance"
    /\ \E st \in InstNext(instState) : \E answer \in {DescribeInstanceAnswer(st), OtherError} :
         LET out == get_db_instance(answer) IN
         /\ lastCall' = Call("get_db_instance", "name", answer, out)
         /\ instState' = IF answer = OtherError THEN instState ELSE st
         /\ IF out.exc # "none"
            THEN Fails(out.exc) /\ UNCHANGED <<db_inst, instCheck>>
            ELSE /\ db_inst' = out.ret
                 /\ instCheck' = out.ret
                 /\ Goes(IF out.ret = "None" THEN "in_versions" ELSE "display_connection")
    /\ UNCHANGED <<entry, parameter_group, snapshot, family, pgExists, snapState, pollVars,
                   pgCheck, pgCreates, instCreates, cleanVars, paramVars, listVars>>

\* create_instance: the administrator prompts, get_engine_versions, q.choose
create_instance_engine ==
    /\ pc = "in_versions"
    /\ \/ /\ lastCall' = Call("get_engine_versions", "engine", OtherError, Raise("ClientError"))
          /\ Fails("ClientError")
       \/ \E ps \in ScenarioVersionPages :
            \E engine_index \in choose(engine_choices(get_engine_versions(ps))) :
              /\ lastCall' = Call("get_engine_versions", "engine", "versions", Return("versions"))
              /\ Goes("in_options")
    /\ UNCHANGED <<entry, parameter_group, db_inst, snapshot, family, provVars, pollVars,
                   checkVars, cleanVars, paramVars, listVars>>

\* create_instance: get_orderable_instances, the micro classes, q.choose
create_instance_class ==
    /\ pc = "in_options"
    /\ \/ /\ lastCall' = Call("get_orderable_instances", "engine", OtherError, Raise("ClientError"))
          /\ Fails("ClientError")
       \/ \E ps \in ScenarioOptionPages :
            \E choices \in inst_choices(get_orderable_instances(ps)) :
              \E inst_index \in choose(choices) :
                /\ lastCall' = Call("get_orderable_instances", "engine", "options", Return("options"))
                /\ Goes("in_create")
    /\ UNCHANGED <<entry, parameter_group, db_inst, snapshot, family, provVars, pollVars,
                   checkVars, cleanVars, paramVars, listVars>>

\* create_instance: the wrapper's create_db_instance.  The instance was absent
\* at the check; the answer carries the new instance's status.
create_instance_create ==
    /\ pc = "in_create"
    /\ instCreates' = instCreates + 1
    /\ \E answer \in {"creating", "available", OtherError} :
         LET out == single_shot(answer) IN
         /\ lastCall' = Call("create_db_instance", "name", answer, out)
         /\ IF out.exc # "none"
            THEN Fails(out.exc) /\ UNCHANGED <<db_inst, instState>>
            ELSE db_inst' = out.ret /\ instState' = answer /\ Goes("in_poll")
    /\ StartPoll
    /\ UNCHANGED <<entry, parameter_group, snapshot, family, pgExists, snapState, pgCheck,
                   pgCreates, instCheck, cleanVars, paramVars, listVars>>

\* create_instance: the loop condition holds, wait(10)
create_instance_wait ==
    /\ pc = "in_poll"
    /\ db_inst # "None"
    /\ poll_continues(db_inst)
    /\ Observe(db_inst)
    /\ Goes("in_describe")
    /\ UNCHANGED <<entry, parameter_group, db_inst, snapshot, family, provVars, lastCall,
                   polls, pollAfterTarget, pollDone, checkVars, cleanVars, paramVars, listVars>>

\* create_instance: db_inst = get_db_instance(instance_name) in the loop
create_instance_describe ==
    /\ pc = "in_describe"
    /\ CountPoll
    /\ \E st \in InstNext(instState) : \E answer \in {DescribeInstanceAnswer(st), OtherError} :
         LET out == get_db_instance(answer) IN
         /\ lastCall' = Call("get_db_instance", "name", answer, out)
         /\ instState' = IF answer = OtherError THEN instState ELSE st
         /\ IF out.exc # "none"
            THEN Fails(out.exc) /\ UNCHANGED db_inst
            ELSE db_inst' = out.ret /\ Goes("in_poll")
    /\ UNCHANGED <<entry, parameter_group, snapshot, family, pgExists, snapState, obs,
                   pollDone, checkVars, cleanVars, paramVars, listVars>>

\* create_instance: the loop condition on None: None has no get
create_instance_none ==
    /\ pc = "in_poll"
    /\ db_inst = "None"
    /\ Fails("AttributeError")
    /\ UNCHANGED <<entry, parameter_group, db_inst, snapshot, family, provVars, lastCall,
                   pollVars, checkVars, cleanVars, paramVars, listVars>>

\* create_instance: the loop condition fails, the instance is returned
create_instance_return ==
    /\ pc = "in_poll"
    /\ db_inst # "None"
    /\ ~poll_continues(db_inst)
    /\ Observe(db_inst)
    /\ pollDone' = TRUE
    /\ Goes("display_connection")
    /\ UNCHANGED <<entry, parameter_group, db_inst, snapshot, family, provVars, lastCall,
                   polls, pollAfterTarget, checkVars, cleanVars, paramVars, listVars>>

\* display_connection(db_inst): db_inst['Endpoint']['Address'].  An instance that
\* is not available may have no Endpoint yet.
display_connection ==
    /\ pc = "display_connection"
    /\ \/ Goes("create_snapshot")
       \/ db_inst # "available" /\ Fails("KeyError")
    /\ UNCHANGED <<entry, parameter_group, db_inst, snapshot, family, provVars, lastCall,
                   pollVars, checkVars, cleanVars, paramVars, listVars>>

\* create_snapshot: the user answers no
create_snapshot_no ==
    /\ pc = "create_snapshot"
    /\ Goes("cleanup")
    /\ UNCHANGED <<entry, parameter_group, db_inst, snapshot, family, provVars, lastCall,
                   pollVars, checkVars, cleanVars, paramVars, listVars>>

\* create_snapshot: the user answers yes, the wrapper's create_snapshot.  The
\* provider snapshots an available instance only.
create_snapshot_create ==
    /\ pc = "create_snapshot"
    /\ \E answer \in {IF instState = "available" THEN "creating" ELSE "InvalidDBInstanceState",
                       OtherError} :
         LET out == single_shot(answer) IN
         /\ lastCall' = Call("create_snapshot", "name", answer, out)
         /\ IF out.exc # "none"
            THEN Fails(out.exc) /\ UNCHANGED <<snapshot, snapState>>
            ELSE snapshot' = out.ret /\ snapState' = answer /\ Goes("sn_poll")
    /\ StartPoll
    /\ UNCHANGED <<entry, parameter_group, db_inst, family, pgExists, instState, checkVars,
                   cleanVars, paramVars, listVars>>

\* create_snapshot: the loop condition holds, wait(10)
create_snapshot_wait ==
    /\ pc = "sn_poll"
    /\ poll_continues(snapshot)
    /\ Observe(snapshot)
    /\ Goes("sn_describe")
    /\ UNCHANGED <<entry, parameter_group, db_inst, snapshot, family, provVars, lastCall,
                   polls, pollAfterTarget, pollDone, checkVars, cleanVars, paramVars, listVars>>

\* create_snapshot: snapshot = get_snapshot(snapshot_id) in the loop
create_snapshot_describe ==
    /\ pc = "sn_describe"
    /\ CountPoll
    /\ \E st \in SnapNext(snapState) : \E answer \in {DescribeSnapshotAnswer(st), OtherError} :
         LET out == get_snapshot(answer) IN
         /\ lastCall' = Call("get_snapshot", "name", answer, out)
         /\ snapState' = IF answer = OtherError THEN snapState ELSE st
         /\ IF out.exc # "none"
            THEN Fails(out.exc) /\ UNCHANGED snapshot
            ELSE snapshot' = out.ret /\ Goes("sn_poll")
    /\ UNCHANGED <<entry, parameter_group, db_inst, family, pgExists, instState, obs,
                   pollDone, checkVars, cleanVars, paramVars, listVars>>

\* create_snapshot: the loop condition fails, the method returns
create_snapshot_return ==
    /\ pc = "sn_poll"
    /\ ~poll_continues(snapshot)
    /\ Observe(snapshot)
    /\ pollDone' = TRUE
    /\ Goes("cleanup")
    /\ UNCHANGED <<entry, parameter_group, db_inst, snapshot, family, provVars, lastCall,
                   polls, pollAfterTarget, checkVars, cleanVars, paramVars, listVars>>
\* cleanup: the user answers no
cleanup_no ==
    /\ pc = "cleanup"
    /\ Goes("done")
    /\ UNCHANGED <<entry, parameter_group, db_inst, snapshot, family, provVars, lastCall,
                   pollVars, checkVars, cleanVars, paramVars, listVars>>

\* What delete_db_instance is given: cleanup passes its db_inst on, a record
\* from run_scenario and the identifier from the __main__ block.
InstanceArgument == IF db_inst = "Str" THEN "identifier" ELSE "record"

\* The provider's answers to delete_db_instance.  A record where the identifier
\* belongs is the client's to accept or to reject.
DeleteInstanceAnswers ==
    {CASE instState = "absent" -> "DBInstanceNotFound"
       [] instState = "deleting" -> "InvalidDBInstanceState"
       [] OTHER -> "deleting",
     OtherError}
    \cup (IF InstanceArgument = "record" THEN {"ParamValidationError"} ELSE {})

\* cleanup: the user answers yes, the wrapper's delete_db_instance(db_inst)
cleanup_delete ==
    /\ pc = "cleanup"
    /\ \E answer \in DeleteInstanceAnswers :
         LET out == delete_db_instance(answer) IN
         /\ lastCall' = Call("delete_db_instance", InstanceArgument, answer, out)
         /\ IF out.exc # "none"
            THEN Fails(out.exc) /\ UNCHANGED <<instState, instDeleted>>
            ELSE instState' = "deleting" /\ instDeleted' = TRUE /\ Goes("cl_poll")
    /\ UNCHANGED <<entry, parameter_group, db_inst, snapshot, family, pgExists, snapState,
                   pollVars, checkVars, absentSeen, pgDeleteAt, paramVars, listVars>>

\* cleanup: "while db_inst is not None" holds, wait(10)
cleanup_wait ==
    /\ pc = "cl_poll"
    /\ cleanup_continues(db_inst)
    /\ Goes("cl_describe")
    /\ UNCHANGED <<entry, parameter_group, db_inst, snapshot, family, provVars, lastCall,
                   pollVars, checkVars, cleanVars, paramVars, listVars>>

\* cleanup: db_inst = get_db_instance(db_inst["DBInstanceIdentifier"]); a string
\* cannot be indexed by a string
cleanup_describe ==
    /\ pc = "cl_describe"
    /\ IF db_inst = "Str"
       THEN Fails("TypeError") /\ UNCHANGED <<db_inst, instState, lastCall, absentSeen>>
       ELSE \E st \in InstNext(instState) : \E answer \in {DescribeInstanceAnswer(st), OtherError} :
              LET out == get_db_instance(answer) IN
              /\ lastCall' = Call("get_db_instance", "name", answer, out)
              /\ instState' = IF answer = OtherError THEN instState ELSE st
              /\ IF out.exc # "none"
                 THEN Fails(out.exc) /\ UNCHANGED <<db_inst, absentSeen>>
                 ELSE /\ db_inst' = out.ret
                      /\ absentSeen' = (absentSeen \/ (instDeleted /\ out.ret = "None"))
                      /\ Goes("cl_poll")
    /\ UNCHANGED <<entry, parameter_group, snapshot, family, pgExists, snapState, pollVars,
                   checkVars, instDeleted, pgDeleteAt, paramVars, listVars>>

\* The provider's answers to delete_db_parameter_group: it may refuse a group
\* that an instance still uses.
DeleteGroupAnswers ==
    (IF ~pgExists THEN {"DBParameterGroupNotFound"}
     ELSE IF instState # "absent" THEN {"deleted", "InvalidDBParameterGroupState"}
     ELSE {"deleted"})
    \cup {OtherError}

\* The wrapper's delete_parameter_group(parameter_group_name): it issues
\* delete_db_parameter_group at once, and reads no state of the DB instance.
DeleteParameterGroup ==
    /\ pgDeleteAt' = instState
    /\ \E answer \in DeleteGroupAnswers :
         LET out == single_shot(answer) IN
         /\ lastCall' = Call("delete_parameter_group", "name", answer, out)
         /\ pgExists' = (pgExists /\ answer # "deleted")
         /\ IF out.exc # "none" THEN Fails(out.exc) ELSE Goes("done")

\* cleanup: the loop ends, delete_parameter_group(parameter_group_name)
cleanup_delete_group ==
    /\ pc = "cl_poll"
    /\ ~cleanup_continues(db_inst)
    /\ DeleteParameterGroup
    /\ UNCHANGED <<entry, parameter_group, db_inst, snapshot, family, instState, snapState,
                   pollVars, checkVars, instDeleted, absentSeen, paramVars, listVars>>

(***************************************************************************)
(* The client's and the scenario's methods called on their own.            *)
(***************************************************************************)
\* InstanceWrapper.delete_parameter_group(name)
call_delete_parameter_group ==
    /\ pc = "start"
    /\ entry = "delete_parameter_group"
    /\ DeleteParameterGroup
    /\ UNCHANGED <<entry, parameter_group, db_inst, snapshot, family, instState, snapState,
                   pollVars, checkVars, instDeleted, absentSeen, paramVars, listVars>>

\* InstanceWrapper.get_snapshot(snapshot_id)
call_get_snapshot ==
    /\ pc = "start"
    /\ entry = "get_snapshot"
    /\ \E answer \in {DescribeSnapshotAnswer(snapState), OtherError} :
         LET out == get_snapshot(answer) IN
         /\ lastCall' = Call("get_snapshot", "name", answer, out)
         /\ snapshot' = out.ret
         /\ IF out.exc # "none" THEN Fails(out.exc) ELSE Goes("done")
    /\ UNCHANGED <<entry, parameter_group, db_inst, family, provVars, pollVars, checkVars,
                   cleanVars, paramVars, listVars>>

\* RdsInstanceScenario.update_parameters(parameter_group_name)
call_update_parameters ==
    /\ pc = "start"
    /\ entry = "update_parameters"
    /\ Goes("update_parameters")
    /\ UNCHANGED <<entry, parameter_group, db_inst, snapshot, family, provVars, lastCall,
                   pollVars, checkVars, cleanVars, paramVars, listVars>>

RECURSIVE PagesUpTo(_, _)
\* At most n pages of at most MaxPageLen items each, no item twice.
PagesUpTo(items, n) ==
    IF n = 0 THEN {<<>>}
    ELSE LET fewer == PagesUpTo(items, n - 1)
         IN fewer \cup UNION {{Append(ps, page) :
                                    page \in NoDupSeqs(items \ Range(Flatten(ps)), MaxPageLen)} :
                                ps \in {t \in fewer : Len(t) = n - 1}}

\* The pages a list request can hold: at least one.
PagesOf(items) == PagesUpTo(items, MaxPages) \ {<<>>}

ParameterNames ==
    {[ParameterName |-> n] : n \in {auto_increment_increment, auto_increment_offset, autocommit}}

\* InstanceWrapper.get_parameters(name, name_prefix="auto_increment")
call_get_parameters ==
    /\ pc = "start"
    /\ entry = "get_parameters"
    /\ lop' = "get_parameters"
    /\ \E ps \in PagesOf(ParameterNames) :
         /\ pages' = ps
         /\ result' = get_parameters(ps, auto_increment)
    /\ Goes("done")
    /\ UNCHANGED <<entry, parameter_group, db_inst, snapshot, family, provVars, lastCall, pollVars,
                   checkVars, cleanVars, paramVars, listA, listB, createA, createB>>

\* Lines 410-416 of create_parameter_group, run twice on one provider answer
\* with the user choosing the same index.
choose_family ==
    /\ pc = "start"
    /\ entry = "families"
    /\ lop' = "families"
    /\ \E ps \in PagesOf(EngineVersions) :
         /\ pages' = ps
         /\ result' = get_engine_versions(ps)
         /\ \E la, lb \in families(get_engine_versions(ps)) : \E i \in choose(la) :
              /\ listA' = la
              /\ listB' = lb
              /\ createA' = la[i]
              /\ createB' = lb[i]
    /\ Goes("done")
    /\ UNCHANGED <<entry, parameter_group, db_inst, snapshot, family, provVars, lastCall, pollVars,
                   checkVars, cleanVars, paramVars>>

\* Lines 482-488 of create_instance, twice: engine_versions[engine_index]
choose_engine ==
    /\ pc = "start"
    /\ entry = "engine_choices"
    /\ lop' = "engine_choices"
    /\ \E ps \in PagesOf(EngineVersions) :
         /\ pages' = ps
         /\ result' = get_engine_versions(ps)
         /\ LET l == engine_choices(get_engine_versions(ps)) IN \E i \in choose(l) :
              /\ listA' = l
              /\ listB' = l
              /\ createA' = get_engine_versions(ps)[i].EngineVersion
              /\ createB' = get_engine_versions(ps)[i].EngineVersion
    /\ Goes("done")
    /\ UNCHANGED <<entry, parameter_group, db_inst, snapshot, family, provVars, lastCall, pollVars,
                   checkVars, cleanVars, paramVars>>

\* Lines 492-504 and 522 of create_instance, twice: inst_choices[inst_index]
choose_class ==
    /\ pc = "start"
    /\ entry = "inst_choices"
    /\ lop' = "inst_choices"
    /\ \E ps \in PagesOf(InstanceOptions) :
         /\ pages' = ps
         /\ result' = get_orderable_instances(ps)
         /\ \E la, lb \in inst_choices(get_orderable_instances(ps)) : \E i \in choose(la) :
              /\ listA' = la
              /\ listB' = lb
              /\ createA' = la[i]
              /\ createB' = lb[i]
    /\ Goes("done")
    /\ UNCHANGED <<entry, parameter_group, db_inst, snapshot, family, provVars, lastCall, pollVars,
                   checkVars, cleanVars, paramVars>>

(***************************************************************************)
(* The specifications.                                                     *)
(***************************************************************************)
\* The entry points: run_scenario, the __main__ block, and a method of the
\* client or of the scenario called on its own.
ProviderEntries == {"run_scenario", "main", "delete_parameter_group", "get_snapshot"}
Entries ==
    ProviderEntries \cup
    {"update_parameters", "get_parameters", "families", "engine_choices", "inst_choices"}

\* The program is about to run one entry point; the provider holds whatever
\* earlier runs left (the list and prompt entry points read none of it).
Init ==
    /\ pc = "start"
    /\ entry \in Entries
    /\ parameter_group = "None"
    /\ db_inst = "None"
    /\ snapshot = "None"
    /\ raised = "none"
    /\ family = "none"
    /\ IF entry \in ProviderEntries
       THEN /\ pgExists \in BOOLEAN
            /\ instState \in {"absent"} \cup InstStatuses
            /\ snapState \in {"absent"} \cup SnapStatuses
       ELSE pgExists = TRUE /\ instState = "absent" /\ snapState = "absent"
    /\ lastCall = NoCall
    /\ obs = <<>>
    /\ polls = 0
    /\ pollAfterTarget = FALSE
    /\ pollDone = FALSE
    /\ pgCheck = "none"
    /\ pgCreates = 0
    /\ instCheck = "none"
    /\ instCreates = 0
    /\ instDeleted = FALSE
    /\ absentSeen = FALSE
    /\ pgDeleteAt = "none"
    /\ auto_inc_parameters = <<>>
    /\ idx = 1
    /\ update_params = <<>>
    /\ sent = <<>>
    /\ lop = "none"
    /\ pages = <<>>
    /\ result = <<>>
    /\ listA = <<>>
    /\ listB = <<>>
    /\ createA = "none"
    /\ createB = "none"

Next ==
    \/ run_scenario
    \/ main
    \/ create_parameter_group_check
    \/ create_parameter_group_choose
    \/ create_parameter_group_create
    \/ create_parameter_group_describe
    \/ update_parameters_get
    \/ update_parameters_loop
    \/ update_parameters_modify
    \/ update_parameters_user
    \/ create_instance_check
    \/ create_instance_engine
    \/ create_instance_class
    \/ create_instance_create
    \/ create_instance_wait
    \/ create_instance_describe
    \/ create_instance_none
    \/ create_instance_return
    \/ display_connection
    \/ create_snapshot_no
    \/ create_snapshot_create
    \/ create_snapshot_wait
    \/ create_snapshot_describe
    \/ create_snapshot_return
    \/ cleanup_no
    \/ cleanup_delete
    \/ cleanup_wait
    \/ cleanup_describe
    \/ cleanup_delete_group
    \/ call_delete_parameter_group
    \/ call_get_snapshot
    \/ call_update_parameters
    \/ call_get_parameters
    \/ choose_family
    \/ choose_engine
    \/ choose_class

Spec == Init /\ [][Next]_vars

\* One thread runs the program: while a step is possible, one is taken.
FairSpec == Spec /\ WF_vars(Next)
(***************************************************************************)
(* Properties.                                                             *)
(***************************************************************************)
GetCalls == {"get_parameter_group", "get_db_instance", "get_snapshot"}

\* C1: whenever the provider answers a get-style existence check
\* (get_parameter_group, get_db_instance, get_snapshot) with NotFound, the call
\* returns None and raises nothing.
C1_NotFoundIsAbsent ==
    (lastCall.op \in GetCalls /\ lastCall.answer \in NotFoundCodes)
        => lastCall.out = Return("None")

PollPositions == {"in_poll", "in_describe", "sn_poll", "sn_describe", "cl_poll", "cl_describe"}

\* C2: every poll loop is left: a workflow that is in a wait-for-available or
\* wait-for-absent loop is eventually out of it, whatever the provider answers.
C2_PollLoopsEnd == (pc \in PollPositions) ~> (pc \notin PollPositions)

NonAvailable(statuses) == {i \in 1..Len(statuses) : statuses[i] # "available"}

\* C3: a poll-until-available loop makes no describe after it has read
\* "available", and when it ends it has made exactly as many describes as it
\* read statuses other than "available" (the create answer's status being the
\* first read), the last status read being "available".  Stated for the loops
\* whose reads were all recorded (fewer than MaxObs describes).
C3_PollsMatchNonAvailable ==
    /\ ~pollAfterTarget
    /\ (pollDone /\ polls < MaxObs) =>
           /\ polls = Cardinality(NonAvailable(obs))
           /\ Len(obs) = polls + 1
           /\ obs[Len(obs)] = "available"

\* C3's case: create_instance has polled twice and returned.
C3_Witness ==
    /\ pollDone
    /\ pc = "display_connection"
    /\ polls = 2
    /\ obs = <<"creating", "creating", "available">>

CleanupEntries == {"run_scenario", "main"}

\* C4: in cleanup, delete_db_parameter_group is issued only after a
\* get_db_instance made after delete_db_instance has returned None.
C4_GroupDeletedAfterAbsent ==
    (entry \in CleanupEntries /\ pgDeleteAt # "none") => (instDeleted /\ absentSeen)

\* C4's case: cleanup has deleted the group, having polled the instance away.
C4_Witness ==
    /\ entry = "run_scenario"
    /\ lastCall.op = "delete_parameter_group"
    /\ lastCall.answer = "deleted"
    /\ absentSeen

\* C5: delete_db_parameter_group is issued to the provider only while the DB
\* instance is absent, through cleanup or by a direct delete_parameter_group.
C5_GroupDeleteNeedsAbsentInstance == pgDeleteAt \in {"none", "absent"}

\* create_parameter_group, and create_instance, have returned to run_scenario.
GroupReturned ==
    entry = "run_scenario" /\ pc \notin {"start", "create_parameter_group", "pg_versions",
                                          "pg_create", "pg_describe", "failed"}
InstanceReturned ==
    entry = "run_scenario" /\ pc \in {"display_connection", "create_snapshot", "sn_poll",
                                       "sn_describe", "cleanup", "cl_poll", "cl_describe", "done"}

\* C6: the create call is issued if and only if the check's describe returned
\* absent, a resource found is returned without a create call, and an instance
\* found in the failed state is not returned as provisioned.
C6_CheckStep ==
    /\ pgCreates > 0 => pgCheck = "None"
    /\ instCreates > 0 => instCheck = "None"
    /\ GroupReturned => (pgCheck = "None" <=> pgCreates = 1)
    /\ InstanceReturned => (instCheck = "None" <=> instCreates = 1)
    /\ InstanceReturned => instCheck # "failed"

ChoiceLists == {"families", "engine_choices", "inst_choices"}

\* C7: a choice list holds no element twice, and two runs on the same provider
\* answer present the same list in the same order, so that the same index
\* gives the same value to the create call.
C7_ChoiceListsDeterministic ==
    lop \in ChoiceLists => (NoDup(listA) /\ NoDup(listB) /\ listA = listB /\ createA = createB)

\* The allowed range parses into two numeric bounds.
TwoNumericBounds(p) ==
    LET pr == Split(p.AllowedValues, "-")
    IN Len(pr) = 2 /\ AllDigits(pr[1]) /\ AllDigits(pr[2])
Eligible(p) == p.IsModifiable /\ p.DataType = "integer" /\ TwoNumericBounds(p)
WithoutValue(p) == [f \in DOMAIN p \ {"ParameterValue"} |-> p[f]]

\* C8: update_parameters does not fail on an allowed range that does not parse,
\* and the parameters of its modify request are exactly the modifiable,
\* integer-typed parameters whose range parses into two numeric bounds.
C8_UnparsableRangeSkipped ==
    /\ raised \notin {"IndexError", "ValueError"}
    /\ lastCall.op = "update_parameters" =>
           [i \in 1..Len(sent) |-> WithoutValue(sent[i])]
               = Filter(auto_inc_parameters, {p \in Range(auto_inc_parameters) : Eligible(p)})

\* C9: every parameter of the modify request carries the decimal string of an
\* integer between the first two parts of its allowed range, bounds included.
C9_SentValuesInRange ==
    lastCall.op = "update_parameters" =>
        \A i \in 1..Len(sent) :
            LET pr == Split(sent[i].AllowedValues, "-")
                v == sent[i].ParameterValue
            IN /\ int_ok(v)
               /\ Str(int(v)) = v
               /\ int(pr[1]) <= int(v)
               /\ int(v) <= int(pr[2])

\* C9's case: two parameters were sent, one at its range's lower bound and one
\* at its upper bound.
C9_Witness ==
    /\ lastCall.op = "update_parameters"
    /\ Len(sent) = 2
    /\ int(sent[1].ParameterValue) = int(Split(sent[1].AllowedValues, "-")[1])
    /\ int(sent[2].ParameterValue) = int(Split(sent[2].AllowedValues, "-")[2])
    /\ int(Split(sent[2].AllowedValues, "-")[1]) < int(Split(sent[2].AllowedValues, "-")[2])

\* C10: a list operation returns every item of every page the provider holds,
\* in the provider's order (get_parameters: those whose name starts with the
\* prefix).
C10_ListsFullyMaterialized ==
    /\ lop \in {"families", "engine_choices", "inst_choices"} => result = Flatten(pages)
    /\ lop = "get_parameters" =>
           result = Filter(Flatten(pages),
                           {q \in Range(Flatten(pages)) : StartsWith(q.ParameterName, auto_increment)})

\* A provider error other than NotFound on an existence check.
ProviderError(call) ==
    call.answer \in ErrorCodes /\ ~(call.op \in GetCalls /\ call.answer \in NotFoundCodes)

\* C11: a provider error other than NotFound on an existence check is re-raised
\* and ends the workflow; run_scenario issues no create call twice; and once
\* an exception has ended the run, no client call follows (no retry, no
\* rollback of what the run created).
C11_ErrorsTerminate ==
    /\ [](/\ ProviderError(lastCall) =>
               (lastCall.out = Raise("ClientError") /\ pc = "failed" /\ raised = "ClientError")
          /\ entry = "run_scenario" => (pgCreates <= 1 /\ instCreates <= 1))
    /\ [][raised # "none" => lastCall' = lastCall]_vars

\* C11's case: the run created the parameter group, create_db_instance then
\* failed, and the run has ended with the group still in place.
C11_Witness ==
    /\ entry = "run_scenario"
    /\ pgCreates = 1
    /\ lastCall.op = "create_db_instance"
    /\ lastCall.answer = OtherError
    /\ pc = "failed"
    /\ pgExists

\* run_scenario's positions after create_parameter_group has returned.
AfterGroupStep ==
    {"update_parameters", "up_loop", "up_user", "create_instance", "in_versions", "in_options",
     "in_create", "in_poll", "in_describe", "display_connection", "create_snapshot", "sn_poll",
     "sn_describe", "cleanup", "cl_poll", "cl_describe", "done"}

\* C12: in run_scenario, when the first describe finds no parameter group, the
\* group is created once, with a family of the list the user chose from; the
\* second describe follows the create; when it returns the group the workflow
\* goes on to update_parameters, and update_parameters starts only right after
\* a describe that returned the group.
C12_GroupScenario ==
    /\ [](entry = "run_scenario" =>
            /\ pc = "pg_describe" =>
                   /\ lastCall = Call("create_parameter_group", "name", "created", Return("created"))
                   /\ pgCheck = "None" /\ pgCreates = 1
            /\ pgCreates > 0 =>
                   /\ pgCreates = 1 /\ pgCheck = "None"
                   /\ family \in {v.DBParameterGroupFamily : v \in EngineVersions}
            /\ pc = "update_parameters" =>
                   lastCall = Call("get_parameter_group", "name", "found", Return("found"))
            /\ pc \in AfterGroupStep =>
                   /\ parameter_group = "found"
                   /\ pgCheck = "None" => pgCreates = 1)
    /\ [][(pc = "pg_describe" /\ lastCall'.op = "get_parameter_group"
            /\ lastCall'.answer = "found") => pc' = "update_parameters"]_vars

\* C12's case: not found, family postgres14 chosen, created, described as
\* existing, and the workflow is at the parameter update step.
C12_Witness ==
    /\ entry = "run_scenario"
    /\ pgCheck = "None"
    /\ pgCreates = 1
    /\ family = "postgres14"
    /\ pc = "update_parameters"
    /\ lastCall = Call("get_parameter_group", "name", "found", Return("found"))

\* A describe of this run returned the DB instance, and not in the failed
\* state: create_instance's check found it so, or its poll loop described it
\* until it was available.
InstanceConfirmed ==
    \/ instCheck \in InstStatuses \ {"failed"}
    \/ instCheck = "None" /\ polls > 0 /\ pollDone /\ db_inst = "available"

\* C13: a descriptor is used or returned only after a describe of the same run
\* has confirmed the resource in a state that is not failed: the instance that
\* create_instance returns, the instance that cleanup deletes, and the
\* parameter group that the steps after create_parameter_group work on.
C13_DescriptorConfirmed ==
    entry \in {"run_scenario", "main"} =>
        /\ pc = "display_connection" => InstanceConfirmed
        /\ lastCall.op = "delete_db_instance" =>
               (instCheck \in InstStatuses \ {"failed"} \/ instCreates = 1)
        /\ (entry = "run_scenario" /\ pc \in AfterGroupStep) => parameter_group = "found"

\* C14: a confirmed cleanup gives delete_db_instance the instance's identifier,
\* its loop then describes that identifier without failing on the value it
\* was handed, and once a describe has reported the instance absent the
\* run does not end before delete_parameter_group has been issued.
C14_CleanupPollsUntilAbsent ==
    entry \in CleanupEntries =>
        /\ lastCall.op = "delete_db_instance" => lastCall.arg = "identifier"
        /\ instDeleted => raised # "TypeError"
        /\ (absentSeen /\ pc \in {"done", "failed"}) => pgDeleteAt # "none"

\* run_scenario's positions after create_instance has returned.
AfterInstanceStep == {"display_connection", "create_snapshot", "sn_poll", "sn_describe", "cleanup"}

\* C15: the DB instance record that create_instance returns, and that
\* run_scenario hands to display_connection and keeps for the later steps,
\* has status available, whether the instance was created in this run or
\* found by the first describe.
C15_ReturnedInstanceAvailable ==
    (entry = "run_scenario" /\ pc \in AfterInstanceStep) => db_inst = "available"

\* C16: whenever the poll loop of create_instance reads the status, db_inst is
\* an instance record, and the workflow never ends by applying the status
\* check to None.
C16_PollReadsPresentRecord ==
    /\ pc = "in_poll" => db_inst # "None"
    /\ raised # "AttributeError"
====
